---- MODULE Spec2Model ----
(***************************************************************************)
(* repair-json: a byte-driven JSON verifier (table-driven pushdown         *)
(* automaton) and the Builder that mirrors accepted bytes and completes a  *)
(* truncated document.  Bytes are integers 0..255; enum variants are       *)
(* strings carrying the source's variant names.                            *)
(***************************************************************************)
EXTENDS Integers, Sequences, FiniteSets, TLC

\* ------------------------------------------------------------------------
\* table.rs
\* ------------------------------------------------------------------------

\* enum CharacterType, in declaration order (the cast `ty as usize` is the
\* position in this sequence, counted from 0).
CharacterType ==
  <<
    "Space", "Whitespace", "BraceOpen", "BraceClose", "BracketOpen", "BracketClose", "Colon", "Comma",
    "Quote", "Backslash", "Slash", "Plus", "Minus", "Dot", "Zero", "Digit",
    "LowA", "LowB", "LowC", "LowD", "LowE", "LowF", "LowL", "LowN",
    "LowR", "LowS", "LowT", "LowU", "Abcdf", "E", "Other"
  >>

\* enum Token, in declaration order (the cast `from as usize`).
Token ==
  <<
    "Begin", "Ok", "Object", "Key", "Colon", "Value", "Array", "String",
    "Escape", "U1", "U2", "U3", "U4", "Minus", "Zero", "Integer",
    "Fraction1", "Fraction2", "Exponent1", "Exponent2", "Exponent3", "TrueTr", "TrueTru", "TrueTrue",
    "FalseFa", "FalseFal", "FalseFals", "FalseFalse", "NullNu", "NullNul", "NullNull"
  >>

\* Transition constructors: Simple(Token), Complex(ComplexToken), Error.
Simple(t) == <<"Simple", t>>

Complex(c) == <<"Complex", c>>

Error == <<"Error", "Error">>

\* const TRANSITIONS: [[Transition; 31]; 31]; one row per Token, one column
\* per CharacterType.
TRANSITIONS ==
  <<
    \* Begin
    <<
      Simple("Begin"), Simple("Begin"), Complex("BraceOpen"), Error,
      Complex("BracketOpen"), Error, Error, Error,
      Error, Error, Error, Error,
      Error, Error, Error, Error,
      Error, Error, Error, Error,
      Error, Error, Error, Error,
      Error, Error, Error, Error,
      Error, Error, Error
    >>,
    \* Ok
    <<
      Simple("Ok"), Simple("Ok"), Error, Complex("BraceClose"),
      Error, Complex("BracketClose"), Error, Complex("Comma"),
      Error, Error, Error, Error,
      Error, Error, Error, Error,
      Error, Error, Error, Error,
      Error, Error, Error, Error,
      Error, Error, Error, Error,
      Error, Error, Error
    >>,
    \* Object
    <<
      Simple("Object"), Simple("Object"), Error, Complex("BraceEmptyClose"),
      Error, Error, Error, Error,
      Simple("String"), Error, Error, Error,
      Error, Error, Error, Error,
      Error, Error, Error, Error,
      Error, Error, Error, Error,
      Error, Error, Error, Error,
      Error, Error, Error
    >>,
    \* Key
    <<
      Simple("Key"), Simple("Key"), Error, Error,
      Error, Error, Error, Error,
      Simple("String"), Error, Error, Error,
      Error, Error, Error, Error,
      Error, Error, Error, Error,
      Error, Error, Error, Error,
      Error, Error, Error, Error,
      Error, Error, Error
    >>,
    \* Colon
    <<
      Simple("Colon"), Simple("Colon"), Error, Error,
      Error, Error, Complex("Kolon"), Error,
      Error, Error, Error, Error,
      Error, Error, Error, Error,
      Error, Error, Error, Error,
      Error, Error, Error, Error,
      Error, Error, Error, Error,
      Error, Error, Error
    >>,
    \* Value
    <<
      Simple("Value"), Simple("Value"), Complex("BraceOpen"), Error,
      Complex("BracketOpen"), Error, Error, Error,
      Simple("String"), Error, Error, Error,
      Simple("Minus"), Error, Simple("Zero"), Simple("Integer"),
      Error, Error, Error, Error,
      Error, Simple("FalseFa"), Error, Simple("NullNu"),
      Error, Error, Simple("TrueTr"), Error,
      Error, Error, Error
    >>,
    \* Array
    <<
      Simple("Array"), Simple("Array"), Complex("BraceOpen"), Error,
      Complex("BracketOpen"), Complex("BracketClose"), Error, Error,
      Simple("String"), Error, Error, Error,
      Simple("Minus"), Error, Simple("Zero"), Simple("Integer"),
      Error, Error, Error, Error,
      Error, Simple("FalseFa"), Error, Simple("NullNu"),
      Error, Error, Simple("TrueTr"), Error,
      Error, Error, Error
    >>,
    \* String
    <<
      Simple("String"), Error, Simple("String"), Simple("String"),
      Simple("String"), Simple("String"), Simple("String"), Simple("String"),
      Complex("Quote"), Simple("Escape"), Simple("String"), Simple("String"),
      Simple("String"), Simple("String"), Simple("String"), Simple("String"),
      Simple("String"), Simple("String"), Simple("String"), Simple("String"),
      Simple("String"), Simple("String"), Simple("String"), Simple("String"),
      Simple("String"), Simple("String"), Simple("String"), Simple("String"),
      Simple("String"), Simple("String"), Simple("String")
    >>,
    \* Escape
    <<
      Error, Error, Error, Error,
      Error, Error, Error, Error,
      Simple("String"), Simple("String"), Simple("String"), Error,
      Error, Error, Error, Error,
      Error, Simple("String"), Error, Error,
      Error, Simple("String"), Error, Simple("String"),
      Simple("String"), Error, Simple("String"), Simple("U1"),
      Error, Error, Error
    >>,
    \* U1
    <<
      Error, Error, Error, Error,
      Error, Error, Error, Error,
      Error, Error, Error, Error,
      Error, Error, Simple("U2"), Simple("U2"),
      Simple("U2"), Simple("U2"), Simple("U2"), Simple("U2"),
      Simple("U2"), Simple("U2"), Error, Error,
      Error, Error, Error, Error,
      Simple("U2"), Simple("U2"), Error
    >>,
    \* U2
    <<
      Error, Error, Error, Error,
      Error, Error, Error, Error,
      Error, Error, Error, Error,
      Error, Error, Simple("U3"), Simple("U3"),
      Simple("U3"), Simple("U3"), Simple("U3"), Simple("U3"),
      Simple("U3"), Simple("U3"), Error, Error,
      Error, Error, Error, Error,
      Simple("U3"), Simple("U3"), Error
    >>,
    \* U3
    <<
      Error, Error, Error, Error,
      Error, Error, Error, Error,
      Error, Error, Error, Error,
      Error, Error, Simple("U4"), Simple("U4"),
      Simple("U4"), Simple("U4"), Simple("U4"), Simple("U4"),
      Simple("U4"), Simple("U4"), Error, Error,
      Error, Error, Error, Error,
      Simple("U4"), Simple("U4"), Error
    >>,
    \* U4
    <<
      Error, Error, Error, Error,
      Error, Error, Error, Error,
      Error, Error, Error, Error,
      Error, Error, Simple("String"), Simple("String"),
      Simple("String"), Simple("String"), Simple("String"), Simple("String"),
      Simple("String"), Simple("String"), Error, Error,
      Error, Error, Error, Error,
      Simple("String"), Simple("String"), Error
    >>,
    \* Minus
    <<
      Error, Error, Error, Error,
      Error, Error, Error, Error,
      Error, Error, Error, Error,
      Error, Error, Simple("Zero"), Simple("Integer"),
      Error, Error, Error, Error,
      Error, Error, Error, Error,
      Error, Error, Error, Error,
      Error, Error, Error
    >>,
    \* Zero
    <<
      Simple("Ok"), Simple("Ok"), Error, Complex("BraceClose"),
      Error, Complex("BracketClose"), Error, Complex("Comma"),
      Error, Error, Error, Error,
      Error, Simple("Fraction1"), Error, Error,
      Error, Error, Error, Error,
      Simple("Exponent1"), Error, Error, Error,
      Error, Error, Error, Error,
      Error, Simple("Exponent1"), Error
    >>,
    \* Integer
    <<
      Simple("Ok"), Simple("Ok"), Error, Complex("BraceClose"),
      Error, Complex("BracketClose"), Error, Complex("Comma"),
      Error, Error, Error, Error,
      Error, Simple("Fraction1"), Simple("Integer"), Simple("Integer"),
      Error, Error, Error, Error,
      Simple("Exponent1"), Error, Error, Error,
      Error, Error, Error, Error,
      Error, Simple("Exponent1"), Error
    >>,
    \* Fraction1
    <<
      Error, Error, Error, Error,
      Error, Error, Error, Error,
      Error, Error, Error, Error,
      Error, Error, Simple("Fraction2"), Simple("Fraction2"),
      Error, Error, Error, Error,
      Error, Error, Error, Error,
      Error, Error, Error, Error,
      Error, Error, Error
    >>,
    \* Fraction2
    <<
      Simple("Ok"), Simple("Ok"), Error, Complex("BraceClose"),
      Error, Complex("BracketClose"), Error, Complex("Comma"),
      Error, Error, Error, Error,
      Error, Error, Simple("Fraction2"), Simple("Fraction2"),
      Error, Error, Error, Error,
      Simple("Exponent1"), Error, Error, Error,
      Error, Error, Error, Error,
      Error, Simple("Exponent1"), Error
    >>,
    \* Exponent1
    <<
      Error, Error, Error, Error,
      Error, Error, Error, Error,
      Error, Error, Error, Simple("Exponent2"),
      Simple("Exponent2"), Error, Simple("Exponent3"), Simple("Exponent3"),
      Error, Error, Error, Error,
      Error, Error, Error, Error,
      Error, Error, Error, Error,
      Error, Error, Error
    >>,
    \* Exponent2
    <<
      Error, Error, Error, Error,
      Error, Error, Error, Error,
      Error, Error, Error, Error,
      Error, Error, Simple("Exponent3"), Simple("Exponent3"),
      Error, Error, Error, Error,
      Error, Error, Error, Error,
      Error, Error, Error, Error,
      Error, Error, Error
    >>,
    \* Exponent3
    <<
      Simple("Ok"), Simple("Ok"), Error, Complex("BraceClose"),
      Error, Complex("BracketClose"), Error, Complex("Comma"),
      Error, Error, Error, Error,
      Error, Error, Simple("Exponent3"), Simple("Exponent3"),
      Error, Error, Error, Error,
      Error, Error, Error, Error,
      Error, Error, Error, Error,
      Error, Error, Error
    >>,
    \* TrueTr
    <<
      Error, Error, Error, Error,
      Error, Error, Error, Error,
      Error, Error, Error, Error,
      Error, Error, Error, Error,
      Error, Error, Error, Error,
      Error, Error, Error, Error,
      Simple("TrueTru"), Error, Error, Error,
      Error, Error, Error
    >>,
    \* TrueTru
    <<
      Error, Error, Error, Error,
      Error, Error, Error, Error,
      Error, Error, Error, Error,
      Error, Error, Error, Error,
      Error, Error, Error, Error,
      Error, Error, Error, Error,
      Error, Error, Error, Simple("TrueTrue"),
      Error, Error, Error
    >>,
    \* TrueTrue
    <<
      Error, Error, Error, Error,
      Error, Error, Error, Error,
      Error, Error, Error, Error,
      Error, Error, Error, Error,
      Error, Error, Error, Error,
      Simple("Ok"), Error, Error, Error,
      Error, Error, Error, Error,
      Error, Error, Error
    >>,
    \* FalseFa
    <<
      Error, Error, Error, Error,
      Error, Error, Error, Error,
      Error, Error, Error, Error,
      Error, Error, Error, Error,
      Simple("FalseFal"), Error, Error, Error,
      Error, Error, Error, Error,
      Error, Error, Error, Error,
      Error, Error, Error
    >>,
    \* FalseFal
    <<
      Error, Error, Error, Error,
      Error, Error, Error, Error,
      Error, Error, Error, Error,
      Error, Error, Error, Error,
      Error, Error, Error, Error,
      Error, Error, Simple("FalseFals"), Error,
      Error, Error, Error, Error,
      Error, Error, Error
    >>,
    \* FalseFals
    <<
      Error, Error, Error, Error,
      Error, Error, Error, Error,
      Error, Error, Error, Error,
      Error, Error, Error, Error,
      Error, Error, Error, Error,
      Error, Error, Error, Error,
      Error, Simple("FalseFalse"), Error, Error,
      Error, Error, Error
    >>,
    \* FalseFalse
    <<
      Error, Error, Error, Error,
      Error, Error, Error, Error,
      Error, Error, Error, Error,
      Error, Error, Error, Error,
      Error, Error, Error, Error,
      Simple("Ok"), Error, Error, Error,
      Error, Error, Error, Error,
      Error, Error, Error
    >>,
    \* NullNu
    <<
      Error, Error, Error, Error,
      Error, Error, Error, Error,
      Error, Error, Error, Error,
      Error, Error, Error, Error,
      Error, Error, Error, Error,
      Error, Error, Error, Error,
      Error, Error, Error, Simple("NullNul"),
      Error, Error, Error
    >>,
    \* NullNul
    <<
      Error, Error, Error, Error,
      Error, Error, Error, Error,
      Error, Error, Error, Error,
      Error, Error, Error, Error,
      Error, Error, Error, Error,
      Error, Error, Simple("NullNull"), Error,
      Error, Error, Error, Error,
      Error, Error, Error
    >>,
    \* NullNull
    <<
      Error, Error, Error, Error,
      Error, Error, Error, Error,
      Error, Error, Error, Error,
      Error, Error, Error, Error,
      Error, Error, Error, Error,
      Error, Error, Simple("Ok"), Error,
      Error, Error, Error, Error,
      Error, Error, Error
    >>
  >>

\* const CATEGORIES: [CharacterType; 128]; "Error" is the error-type entry.
CATEGORIES ==
  <<
    "Error", "Error", "Error", "Error", "Error", "Error", "Error", "Error",
    "Error", "Whitespace", "Whitespace", "Error", "Error", "Whitespace", "Error", "Error",
    "Error", "Error", "Error", "Error", "Error", "Error", "Error", "Error",
    "Error", "Error", "Error", "Error", "Error", "Error", "Error", "Error",
    "Space", "Other", "Quote", "Other", "Other", "Other", "Other", "Other",
    "Other", "Other", "Other", "Plus", "Comma", "Minus", "Dot", "Slash",
    "Zero", "Digit", "Digit", "Digit", "Digit", "Digit", "Digit", "Digit",
    "Digit", "Digit", "Colon", "Other", "Other", "Other", "Other", "Other",
    "Other", "Abcdf", "Abcdf", "Abcdf", "Abcdf", "E", "Abcdf", "Other",
    "Other", "Other", "Other", "Other", "Other", "Other", "Other", "Other",
    "Other", "Other", "Other", "Other", "Other", "Other", "Other", "Other",
    "Other", "Other", "Other", "BracketOpen", "Backslash", "BracketClose", "Other", "Other",
    "Other", "LowA", "LowB", "LowC", "LowD", "LowE", "LowF", "Other",
    "Other", "Other", "Other", "Other", "LowL", "Other", "LowN", "Other",
    "Other", "Other", "LowR", "LowS", "LowT", "LowU", "Other", "Other",
    "Other", "Other", "Other", "BraceOpen", "Other", "BraceClose", "Other", "Other"
  >>

\* pub fn character_type(character: u8) -> Result<CharacterType, Error>
character_type(character) ==
  LET ty == CATEGORIES[character + 1]
  IN  IF ty = "Error"
        THEN [err |-> "Invalid", val |-> "Error"]
        ELSE [err |-> "Ok", val |-> ty]

\* The cast `x as usize` of a variant of an enum laid out as `variants`.
as_usize(variants, x) ==
  (CHOOSE i \in 1..Len(variants) : variants[i] = x) - 1

\* transition reading the <value> row for the <begin> row.
transition_begin_as_value(from, ty) ==
  LET row == IF from = "Begin" THEN "Value" ELSE from
      tr  == TRANSITIONS[as_usize(Token, row) + 1][as_usize(CharacterType, ty) + 1]
  IN  IF tr = Error
        THEN [err |-> "Invalid", val |-> Error]
        ELSE [err |-> "Ok", val |-> tr]

\* transition reading the <space> column for <other-white-space>.
transition_whitespace_as_space(from, ty) ==
  LET col == IF ty = "Whitespace" THEN "Space" ELSE ty
      tr  == TRANSITIONS[as_usize(Token, from) + 1][as_usize(CharacterType, col) + 1]
  IN  IF tr = Error
        THEN [err |-> "Invalid", val |-> Error]
        ELSE [err |-> "Ok", val |-> tr]

\* transition with the <ok> row leaving out its <space> column.
transition_no_space_after_value(from, ty) ==
  LET tr == TRANSITIONS[as_usize(Token, from) + 1][as_usize(CharacterType, ty) + 1]
  IN  IF tr = Error \/ (from = "Ok" /\ ty = "Space")
        THEN [err |-> "Invalid", val |-> Error]
        ELSE [err |-> "Ok", val |-> tr]

\* pub fn transition(from: Token, ty: CharacterType) -> Result<Transition, Error>
transition(from, ty) ==
  LET tr == TRANSITIONS[as_usize(Token, from) + 1][as_usize(CharacterType, ty) + 1]
  IN  IF tr = Error
        THEN [err |-> "Invalid", val |-> Error]
        ELSE [err |-> "Ok", val |-> tr]

\* ------------------------------------------------------------------------
\* verifier.rs
\* ------------------------------------------------------------------------

\* std::usize::MAX, the default maximum depth.  Held at the largest integer
\* the checker represents; it is only ever compared with a stack length.
UsizeMax == 2147483647

\* enum ValueType
ValueType == {"Key", "Array", "Object"}

\* Result<(), Error> of a method taking `&mut self`: the error tag ("Ok" when
\* the call succeeded) together with the receiver as the call left it.
Res(err, v) == [err |-> err, v |-> v]

\* The `?` operator: continue with `F` on the receiver left by a successful
\* step, return the error of a failed one (keeping what it had mutated).
AndThen(r, F(_)) == IF r.err = "Ok" THEN F(r.v) ELSE r

\* Vec::last() as an Option: "None" on an empty vector.
Last(s) == IF Len(s) = 0 THEN "None" ELSE s[Len(s)]

\* Vec::pop(): the vector without its last element (unchanged when empty).
PopBack(s) == IF Len(s) = 0 THEN s ELSE SubSeq(s, 1, Len(s) - 1)

\* Verifier::with_maximum_depth (after its assert!(maximum_depth > 0)).
Verifier_with_maximum_depth(maximum_depth) ==
  [ length       |-> 0,
    last_ok      |-> 0,
    stack        |-> <<>>,
    nested_state |-> <<>>,
    state        |-> "Begin",
    maximum      |-> maximum_depth ]

\* impl Default for Verifier / Verifier::new
Verifier_new == Verifier_with_maximum_depth(UsizeMax)

\* status without the test of nested_state.
Verifier_status_state_only(v) ==
  IF v.state = "Ok" THEN "Valid" ELSE "Continue"

\* Verifier::status
Verifier_status(v) ==
  IF v.state = "Ok" /\ Len(v.nested_state) = 0 THEN "Valid" ELSE "Continue"

\* reset leaving last_ok as it was.
Verifier_reset_keeps_last_ok(v) ==
  [v EXCEPT !.length = 0, !.state = "Begin",
            !.stack = <<>>, !.nested_state = <<>>]

\* Verifier::reset
Verifier_reset(v) ==
  [v EXCEPT !.length = 0, !.last_ok = 0, !.state = "Begin",
            !.stack = <<>>, !.nested_state = <<>>]

\* state without the assignment of last_ok on reaching Ok.
Verifier_state_no_ok_anchor(v, st) ==
  LET len1 == v.length + 1
      lo2  == IF \/ (st = "Object" /\ v.state = "Value")
                 \/ (st = "Array" /\ Last(v.nested_state) = "Array")
                THEN len1
                ELSE v.last_ok
  IN  Res("Ok", [v EXCEPT !.length = len1, !.last_ok = lo2, !.state = st])

\* state anchoring last_ok before the bracket of a container opened in
\* value position.
Verifier_state_anchor_before(v, st) ==
  LET len1 == v.length + 1
      lo1  == IF st = "Ok" THEN len1 ELSE v.last_ok
      lo2  == IF \/ (st = "Object" /\ v.state = "Value")
                 \/ (st = "Array" /\ Last(v.nested_state) = "Array")
                THEN v.length
                ELSE lo1
  IN  Res("Ok", [v EXCEPT !.length = len1, !.last_ok = lo2, !.state = st])

\* state without the anchoring of last_ok at a container opened in value
\* position.
Verifier_state_no_value_anchor(v, st) ==
  LET len1 == v.length + 1
      lo1  == IF st = "Ok" THEN len1 ELSE v.last_ok
  IN  Res("Ok", [v EXCEPT !.length = len1, !.last_ok = lo1, !.state = st])

\* fn state(&mut self, state: Token)
Verifier_state(v, st) ==
  LET len1 == v.length + 1
      lo1  == IF st = "Ok" THEN len1 ELSE v.last_ok
      lo2  == IF \/ (st = "Object" /\ v.state = "Value")
                 \/ (st = "Array" /\ Last(v.nested_state) = "Array")
                THEN len1
                ELSE lo1
  IN  Res("Ok", [v EXCEPT !.length = len1, !.last_ok = lo2, !.state = st])

\* push failing with Invalid.
Verifier_push_invalid(v, ty) ==
  IF Len(v.nested_state) < v.maximum
    THEN Res("Ok", [v EXCEPT !.nested_state = Append(@, ty)])
    ELSE Res("Invalid", v)

\* push without the comparison with maximum.
Verifier_push_unbounded(v, ty) ==
  Res("Ok", [v EXCEPT !.nested_state = Append(@, ty)])

\* fn push(&mut self, ty: ValueType)
Verifier_push(v, ty) ==
  IF Len(v.nested_state) < v.maximum
    THEN Res("Ok", [v EXCEPT !.nested_state = Append(@, ty)])
    ELSE Res("Exceeded", v)

\* fn enter(&mut self, ty: ValueType)
Verifier_enter(v, ty) ==
  IF Len(v.stack) < v.maximum /\ ty # "Key"
    THEN Res("Ok", [v EXCEPT !.stack = Append(@, <<ty, v.last_ok>>)])
    ELSE Res("Invalid", v)

\* exit comparing the last entry of stack without removing it.
Verifier_exit_keeps_entry(v, ty) ==
  IF Len(v.stack) = 0
    THEN Res("Invalid", v)
    ELSE IF ty # Last(v.stack)[1] THEN Res("Invalid", v) ELSE Res("Ok", v)

\* fn exit(&mut self, ty: ValueType)
Verifier_exit(v, ty) ==
  IF Len(v.stack) = 0
    THEN Res("Invalid", v)
    ELSE LET pop_ty == Last(v.stack)[1]
             v1     == [v EXCEPT !.stack = PopBack(@)]
         IN  IF ty # pop_ty THEN Res("Invalid", v1) ELSE Res("Ok", v1)

\* fn pop(&mut self, ty: ValueType): nested_state.pop() runs before the
\* comparison, so the element is gone whether or not it matched.
Verifier_pop(v, ty) ==
  LET popped == Last(v.nested_state)
      v1     == [v EXCEPT !.nested_state = PopBack(@)]
  IN  IF popped = ty THEN Res("Ok", v1) ELSE Res("Invalid", v1)

\* fn switch(&mut self, from: ValueType, to: ValueType)
Verifier_switch(v, from, to) ==
  AndThen(Verifier_pop(v, from), LAMBDA w : Verifier_push(w, to))

\* The ComplexToken::Comma arm without the assignment to last_ok.
Verifier_update_comma_no_anchor(v) ==
  IF Last(v.nested_state) = "Object"
    THEN AndThen(Verifier_switch(v, "Object", "Key"),
                 LAMBDA w : Verifier_state(w, "Key"))
    ELSE IF Last(v.nested_state) = "Array"
           THEN Verifier_state(v, "Value")
           ELSE Res("Invalid", v)

\* The ComplexToken::Comma arm assigning last_ok inside an array as well.
Verifier_update_comma_array_anchor(v) ==
  IF Last(v.nested_state) = "Object"
    THEN LET v1 == [v EXCEPT !.last_ok = v.length]
         IN  AndThen(Verifier_switch(v1, "Object", "Key"),
                     LAMBDA w : Verifier_state(w, "Key"))
    ELSE IF Last(v.nested_state) = "Array"
           THEN Verifier_state([v EXCEPT !.last_ok = v.length], "Value")
           ELSE Res("Invalid", v)

\* The ComplexToken::Comma arm taking a `,` with no open container for a
\* separator of values.
Verifier_update_comma_top_level(v) ==
  IF Last(v.nested_state) = "Object"
    THEN LET v1 == [v EXCEPT !.last_ok = v.length]
         IN  AndThen(Verifier_switch(v1, "Object", "Key"),
                     LAMBDA w : Verifier_state(w, "Key"))
    ELSE Verifier_state(v, "Value")

\* The ComplexToken::Comma arm moving last_ok back to the anchor of the
\* innermost open container.
Verifier_update_comma_container_anchor(v) ==
  IF Last(v.nested_state) = "Object"
    THEN LET v1 == [v EXCEPT !.last_ok = IF v.stack = <<>>
                                           THEN 0
                                           ELSE Last(v.stack)[2]]
         IN  AndThen(Verifier_switch(v1, "Object", "Key"),
                     LAMBDA w : Verifier_state(w, "Key"))
    ELSE IF Last(v.nested_state) = "Array"
           THEN Verifier_state(v, "Value")
           ELSE Res("Invalid", v)

\* The ComplexToken::Comma arm of Verifier::update.
Verifier_update_comma(v) ==
  IF Last(v.nested_state) = "Object"
    THEN LET v1 == [v EXCEPT !.last_ok = v.length]
         IN  AndThen(Verifier_switch(v1, "Object", "Key"),
                     LAMBDA w : Verifier_state(w, "Key"))
    ELSE IF Last(v.nested_state) = "Array"
           THEN Verifier_state(v, "Value")
           ELSE Res("Invalid", v)

\* The close arms popping both vectors without comparing what they pop.
Verifier_update_close_unchecked(v, nested, ty) ==
  Verifier_state([v EXCEPT !.nested_state = PopBack(@),
                           !.stack = PopBack(@)], "Ok")

\* The BraceEmptyClose, BraceClose and BracketClose arms of Verifier::update:
\* self.pop(nested)?; self.exit(ty)?; self.state(Token::Ok)
Verifier_update_close(v, nested, ty) ==
  AndThen(AndThen(Verifier_pop(v, nested),
                  LAMBDA w : Verifier_exit(w, ty)),
          LAMBDA w : Verifier_state(w, "Ok"))

\* The `Transition::Complex(ty)` arm of Verifier::update.
Verifier_update_complex(v, ty) ==
  CASE ty = "BraceEmptyClose" -> Verifier_update_close(v, "Key", "Object")
    [] ty = "BraceClose" -> Verifier_update_close(v, "Object", "Object")
    [] ty = "BracketClose" -> Verifier_update_close(v, "Array", "Array")
    [] ty = "BraceOpen" ->
         AndThen(AndThen(Verifier_push(v, "Key"),
                         LAMBDA w : Verifier_enter(w, "Object")),
                 LAMBDA w : Verifier_state(w, "Object"))
    [] ty = "BracketOpen" ->
         AndThen(AndThen(Verifier_push(v, "Array"),
                         LAMBDA w : Verifier_enter(w, "Array")),
                 LAMBDA w : Verifier_state(w, "Array"))
    [] ty = "Quote" ->
         IF Last(v.nested_state) = "Key"
           THEN Verifier_state(v, "Colon")
           ELSE IF Last(v.nested_state) \in {"Object", "Array"}
                  THEN Verifier_state(v, "Ok")
                  ELSE Res("Invalid", v)
    [] ty = "Comma" -> Verifier_update_comma(v)
    [] ty = "Kolon" ->
         AndThen(Verifier_switch(v, "Key", "Object"),
                 LAMBDA w : Verifier_state(w, "Value"))

\* update accepting the bytes >= 128 inside a string only.
Verifier_update_high_in_string(v, character) ==
  IF character >= 128
    THEN IF v.state = "String"
           THEN Verifier_state(v, v.state)
           ELSE Res("Invalid", v)
    ELSE LET ct == character_type(character)
         IN  IF ct.err # "Ok"
               THEN Res(ct.err, v)
               ELSE LET tr == transition(v.state, ct.val)
                    IN  IF tr.err # "Ok"
                          THEN Res(tr.err, v)
                          ELSE IF tr.val[1] = "Simple"
                                 THEN Verifier_state(v, tr.val[2])
                                 ELSE Verifier_update_complex(v, tr.val[2])

\* pub fn update(&mut self, character: u8) -> Result<(), Error>
Verifier_update(v, character) ==
  IF character >= 128
    THEN Verifier_state(v, v.state)
    ELSE LET ct == character_type(character)
         IN  IF ct.err # "Ok"
               THEN Res(ct.err, v)
               ELSE LET tr == transition(v.state, ct.val)
                    IN  IF tr.err # "Ok"
                          THEN Res(tr.err, v)
                          ELSE IF tr.val[1] = "Simple"
                                 THEN Verifier_state(v, tr.val[2])
                                 ELSE Verifier_update_complex(v, tr.val[2])

\* Iterator::rev on a sequence.
Rev(s) == [i \in 1..Len(s) |-> s[Len(s) + 1 - i]]

\* The literal arms extending `tokens` with the whole literal.
Verifier_complete_literal_whole(st) ==
  CASE st = "Integer"   -> <<>>
    [] st \in {"NullNu", "NullNul", "NullNull"} -> <<110, 117, 108, 108>>
    [] st \in {"TrueTr", "TrueTru", "TrueTrue"} -> <<116, 114, 117, 101>>
    [] st \in {"FalseFa", "FalseFal", "FalseFals", "FalseFalse"}
         -> <<102, 97, 108, 115, 101>>

\* The arms of the first `match self.state` of Verifier::complete that
\* extend `tokens` with the rest of a literal (Integer adds nothing).
Verifier_complete_literal(st) ==
  CASE st = "Integer"   -> <<>>
    [] st = "NullNu"    -> <<117, 108, 108>>
    [] st = "NullNul"   -> <<108, 108>>
    [] st = "NullNull"  -> <<108>>
    [] st = "TrueTr"    -> <<114, 117, 101>>
    [] st = "TrueTru"   -> <<117, 101>>
    [] st = "FalseFa"   -> <<97, 108, 115, 101>>
    [] st = "FalseFal"  -> <<108, 115, 101>>
    [] st = "FalseFals" -> <<115, 101>>
    [] st \in {"FalseFalse", "TrueTrue"} -> <<101>>

\* The states those arms match.
LiteralStates ==
  { "Integer", "NullNu", "NullNul", "NullNull", "TrueTr", "TrueTru",
    "FalseFa", "FalseFal", "FalseFals", "FalseFalse", "TrueTrue" }

\* The match with every literal arm adding one letter too few.
Verifier_complete_state_short_literal(v) ==
  IF v.state \in LiteralStates
    THEN [tokens  |-> IF Verifier_complete_literal(v.state) = <<>>
                        THEN <<>>
                        ELSE Tail(Verifier_complete_literal(v.state)),
          last_ok |-> <<>>]
    ELSE IF v.state = "String"
           THEN IF Last(v.nested_state) = "Key"
                  THEN [tokens |-> <<>>, last_ok |-> <<v.last_ok>>]
                  ELSE [tokens |-> <<34>>, last_ok |-> <<>>]
           ELSE [tokens |-> <<>>, last_ok |-> <<v.last_ok>>]

\* The match with Zero handled like Integer.
Verifier_complete_state_zero_kept(v) ==
  IF v.state \in LiteralStates \cup {"Zero"}
    THEN [tokens  |-> IF v.state = "Zero"
                        THEN <<>>
                        ELSE Verifier_complete_literal(v.state),
          last_ok |-> <<>>]
    ELSE IF v.state = "String"
           THEN IF Last(v.nested_state) = "Key"
                  THEN [tokens |-> <<>>, last_ok |-> <<v.last_ok>>]
                  ELSE [tokens |-> <<34>>, last_ok |-> <<>>]
           ELSE [tokens |-> <<>>, last_ok |-> <<v.last_ok>>]

\* The match with Escape handled like String.
Verifier_complete_state_escape_as_string(v) ==
  IF v.state \in LiteralStates
    THEN [tokens |-> Verifier_complete_literal(v.state), last_ok |-> <<>>]
    ELSE IF v.state \in {"String", "Escape"}
           THEN IF Last(v.nested_state) = "Key"
                  THEN [tokens |-> <<>>, last_ok |-> <<v.last_ok>>]
                  ELSE [tokens |-> <<34>>, last_ok |-> <<>>]
           ELSE [tokens |-> <<>>, last_ok |-> <<v.last_ok>>]

\* The first `match self.state` of Verifier::complete: the token suffix and
\* the Option<usize> `last_ok` (<<>> is None, <<n>> is Some(n)).
Verifier_complete_state(v) ==
  IF v.state \in LiteralStates
    THEN [tokens |-> Verifier_complete_literal(v.state), last_ok |-> <<>>]
    ELSE IF v.state = "String"
           THEN IF Last(v.nested_state) = "Key"
                  THEN [tokens |-> <<>>, last_ok |-> <<v.last_ok>>]
                  ELSE [tokens |-> <<34>>, last_ok |-> <<>>]
           ELSE [tokens |-> <<>>, last_ok |-> <<v.last_ok>>]

\* The closure with `<=` in place of `<`.
Verifier_complete_filter_inclusive(entry, last_ok) ==
  \/ last_ok = <<>>
  \/ last_ok[1] = 0
  \/ entry[2] <= last_ok[1]

\* The closure with its comparison turned around.
Verifier_complete_filter_inverted(entry, last_ok) ==
  IF last_ok = <<>>
    THEN TRUE
    ELSE last_ok[1] = 0 \/ entry[2] >= last_ok[1]

\* The closure passed to `filter` in Verifier::complete.
Verifier_complete_filter(entry, last_ok) ==
  IF last_ok = <<>>
    THEN TRUE
    ELSE last_ok[1] = 0 \/ entry[2] < last_ok[1]

\* The chain without its rev(): closers outermost first.
Verifier_complete_closers_no_rev(v, last_ok) ==
  LET kept  == SelectSeq(v.stack,
                         LAMBDA e : Verifier_complete_filter(e, last_ok))
      nokey == SelectSeq(kept, LAMBDA e : e[1] # "Key")
  IN  [i \in 1..Len(nokey) |-> IF nokey[i][1] = "Array" THEN 93 ELSE 125]

\* The stack.iter().filter(..).rev().filter_map(..) chain of
\* Verifier::complete: `]` is 93, `}` is 125, a Key entry yields nothing.
Verifier_complete_closers(v, last_ok) ==
  LET kept  == SelectSeq(v.stack,
                         LAMBDA e : Verifier_complete_filter(e, last_ok))
      nokey == SelectSeq(Rev(kept), LAMBDA e : e[1] # "Key")
  IN  [i \in 1..Len(nokey) |-> IF nokey[i][1] = "Array" THEN 93 ELSE 125]

\* pub(crate) fn complete(&self) -> (Option<usize>, Vec<u8>)
Verifier_complete(v) ==
  LET first == Verifier_complete_state(v)
  IN  << first.last_ok,
         first.tokens \o Verifier_complete_closers(v, first.last_ok) >>

\* ------------------------------------------------------------------------
\* builder.rs
\* ------------------------------------------------------------------------

\* Builder::with_options (the capacity only sizes the allocation).
Builder_with_maximum_depth(maximum_depth) ==
  [ invalid  |-> FALSE,
    data     |-> <<>>,
    verifier |-> Verifier_with_maximum_depth(maximum_depth) ]

\* Builder::new / impl Default
Builder_new == Builder_with_maximum_depth(UsizeMax)

\* impl From<Verifier> for Builder
Builder_from(v) == [Builder_new EXCEPT !.verifier = v]

\* Builder::len
Builder_len(b) == Len(b.data)

\* Builder::status
Builder_status(b) == Verifier_status(b.verifier)

\* reset without the assignment to invalid.
Builder_reset_keeps_latch(b) ==
  [b EXCEPT !.data = <<>>, !.verifier = Verifier_reset(b.verifier)]

\* Builder::reset
Builder_reset(b) ==
  [b EXCEPT !.invalid = FALSE, !.data = <<>>,
            !.verifier = Verifier_reset(b.verifier)]

\* The loop pushing only the bytes below 128 to the buffer.
RECURSIVE Builder_update_loop_ascii(_, _, _)
Builder_update_loop_ascii(b, source, i) ==
  IF i > Len(source)
    THEN Res("Ok", b)
    ELSE LET r == Verifier_update(b.verifier, source[i])
         IN  IF r.err = "Ok"
               THEN Builder_update_loop_ascii(
                      [b EXCEPT !.verifier = r.v,
                                !.data = IF source[i] < 128
                                           THEN Append(@, source[i])
                                           ELSE @],
                      source, i + 1)
               ELSE Res(r.err, [b EXCEPT !.verifier = r.v, !.invalid = TRUE])

\* The `for character in source.stream()` loop of Builder::update, from the
\* i-th byte of the source on.
RECURSIVE Builder_update_loop(_, _, _)
Builder_update_loop(b, source, i) ==
  IF i > Len(source)
    THEN Res("Ok", b)
    ELSE LET r == Verifier_update(b.verifier, source[i])
         IN  IF r.err = "Ok"
               THEN Builder_update_loop(
                      [b EXCEPT !.verifier = r.v,
                                !.data = Append(@, source[i])],
                      source, i + 1)
               ELSE Res(r.err, [b EXCEPT !.verifier = r.v, !.invalid = TRUE])

\* update without the check of the invalid latch.
Builder_update_no_latch(b, source) == Builder_update_loop(b, source, 1)

\* pub fn update(&mut self, source: &impl Source) -> Result<(), Error>
Builder_update(b, source) ==
  IF b.invalid
    THEN Res("Invalid", b)
    ELSE Builder_update_loop(b, source, 1)

\* Number of continuation bytes a UTF-8 lead byte announces (0 for ASCII),
\* or -1 when the byte cannot start a sequence.
Utf8Width(c) ==
  IF c < 128 THEN 0
  ELSE IF c >= 194 /\ c <= 223 THEN 1
  ELSE IF c >= 224 /\ c <= 239 THEN 2
  ELSE IF c >= 240 /\ c <= 244 THEN 3
  ELSE -1

\* Range of the first continuation byte after lead byte c (the rest are
\* always 0x80..0xBF).
Utf8Second(c) ==
  CASE c = 224 -> <<160, 191>>
    [] c = 237 -> <<128, 159>>
    [] c = 240 -> <<144, 191>>
    [] c = 244 -> <<128, 143>>
    [] OTHER   -> <<128, 191>>

\* String::from_utf8(data).is_ok(), from the i-th byte on.
RECURSIVE IsUtf8From(_, _)
IsUtf8From(s, i) ==
  IF i > Len(s)
    THEN TRUE
    ELSE LET w == Utf8Width(s[i])
         IN  /\ w >= 0
             /\ i + w <= Len(s)
             /\ w >= 1 => /\ s[i + 1] >= Utf8Second(s[i])[1]
                          /\ s[i + 1] <= Utf8Second(s[i])[2]
             /\ \A k \in 2..w : s[i + k] >= 128 /\ s[i + k] <= 191
             /\ IsUtf8From(s, i + w + 1)

\* String::from_utf8(data).map_err(|_| Error::Utf8)
from_utf8(d) ==
  IF IsUtf8From(d, 1)
    THEN [err |-> "Ok", val |-> d]
    ELSE [err |-> "Utf8", val |-> <<>>]

\* pub fn bytes(self) -> Result<Vec<u8>, Error>
Builder_bytes(b) ==
  IF b.invalid
    THEN [err |-> "Invalid", val |-> <<>>]
    ELSE [err |-> "Ok", val |-> b.data]

\* pub fn string(self) -> Result<String, Error>
Builder_string(b) ==
  LET r == Builder_bytes(b)
  IN  IF r.err # "Ok" THEN r ELSE from_utf8(r.val)

\* Vec::truncate(len): no effect when len is not below the current length.
Truncate(d, n) == IF n >= Len(d) THEN d ELSE SubSeq(d, 1, n)

\* completed_bytes refusing a builder that has accepted nothing.
Builder_completed_bytes_rejects_begin(b) ==
  IF b.invalid \/ b.verifier.state = "Begin"
    THEN [err |-> "Invalid", val |-> <<>>]
    ELSE IF Verifier_status(b.verifier) = "Continue"
           THEN LET c      == Verifier_complete(b.verifier)
                    until  == c[1]
                    tokens == c[2]
                    cut    == IF until # <<>>
                                THEN Truncate(b.data,
                                       IF until[1] = 0 THEN 1 ELSE until[1])
                                ELSE b.data
                IN  [err |-> "Ok", val |-> cut \o tokens]
           ELSE [err |-> "Ok", val |-> b.data]

\* completed_bytes returning a Valid document without its whitespace.
Builder_completed_bytes_minified(b) ==
  IF b.invalid
    THEN [err |-> "Invalid", val |-> <<>>]
    ELSE IF Verifier_status(b.verifier) = "Continue"
           THEN LET c      == Verifier_complete(b.verifier)
                    until  == c[1]
                    tokens == c[2]
                    cut    == IF until # <<>>
                                THEN Truncate(b.data,
                                       IF until[1] = 0 THEN 1 ELSE until[1])
                                ELSE b.data
                IN  [err |-> "Ok", val |-> cut \o tokens]
           ELSE [err |-> "Ok",
                 val |-> SelectSeq(b.data, LAMBDA c : c \notin {32, 9, 10, 13})]

\* pub fn completed_bytes(mut self) -> Result<Vec<u8>, Error>
Builder_completed_bytes(b) ==
  IF b.invalid
    THEN [err |-> "Invalid", val |-> <<>>]
    ELSE IF Verifier_status(b.verifier) = "Continue"
           THEN LET c      == Verifier_complete(b.verifier)
                    until  == c[1]
                    tokens == c[2]
                    cut    == IF until # <<>>
                                THEN Truncate(b.data,
                                       IF until[1] = 0 THEN 1 ELSE until[1])
                                ELSE b.data
                IN  [err |-> "Ok", val |-> cut \o tokens]
           ELSE [err |-> "Ok", val |-> b.data]

\* pub fn completed_string(self) -> Result<String, Error>
Builder_completed_string(b) ==
  LET r == Builder_completed_bytes(b)
  IN  IF r.err # "Ok" THEN r ELSE from_utf8(r.val)

\* ------------------------------------------------------------------------
\* lib.rs
\* ------------------------------------------------------------------------

\* pub fn repair<I: Source>(input: I) -> Result<String, Error>
repair(input) ==
  LET r == Builder_update(Builder_new, input)
  IN  IF r.err # "Ok"
        THEN [err |-> r.err, val |-> <<>>]
        ELSE Builder_completed_string(r.v)

\* ------------------------------------------------------------------------
\* Inputs
\* ------------------------------------------------------------------------

\* Longest input explored byte by byte over the whole alphabet.
MaxLen == 5

\* Most whitespace bytes and most bytes >= 128 in such an input.
MaxWs == 1

MaxHigh == 1

\* Longest slice handed to one Builder::update call.
MaxChunk == 2

\* Longest input of one repair call drawn from RepairBytes.
MaxRepairLen == 4

\* Longest life of a bare Verifier, in successful updates.
MaxVerifierLen == 8

\* Largest maximum depth a bare Verifier is constructed with.
MaxDepth == 2

\* Longest life, in successful updates, of a Verifier whose update calls are
\* recorded with the byte they were given.
MaxTryLen == 5

\* Most bytes accepted by a Verifier and the Builder it is turned into,
\* before the last update call.
MaxConvertLen == 3

\* The bytes fed: { } [ ] : , " space LF - 0 1 . e E + t r u f a l s n \ x,
\* NUL, and the high bytes 0xC2 and 0x80.
Bytes ==
  { 123, 125, 91, 93, 58, 44, 34, 32, 10, 45, 48, 49, 46, 101, 69, 43,
    116, 114, 117, 102, 97, 108, 115, 110, 92, 120, 0, 194, 128 }

\* The bytes given to a Verifier in SpecTry: those of Bytes and the control
\* characters TAB, CR, BS, US and DEL.
TryBytes == Bytes \cup {9, 13, 8, 31, 127}

\* The bytes fed while a string literal is open: " \ u 1 LF.
StrBytes == {34, 92, 117, 49, 10}

\* The bytes of the inputs of repair: { } [ ] : , " space 1
RepairBytes == {123, 125, 91, 93, 58, 44, 34, 32, 49}

\* Documents fed in full, whatever their length.
Seeds ==
  <<
    \* lib.rs tests::can_complete_mixed_example (full_json):
    \*   { "users": [{ "id": 1, "name": "Miguel", "verified_at": null }, { "id": 2, "name": "Anne", "verified_at": 1234 }] }
    <<
      123, 32, 34, 117, 115, 101, 114, 115, 34, 58, 32, 91, 123, 32, 34, 105,
      100, 34, 58, 32, 49, 44, 32, 34, 110, 97, 109, 101, 34, 58, 32, 34,
      77, 105, 103, 117, 101, 108, 34, 44, 32, 34, 118, 101, 114, 105, 102, 105,
      101, 100, 95, 97, 116, 34, 58, 32, 110, 117, 108, 108, 32, 125, 44, 32,
      123, 32, 34, 105, 100, 34, 58, 32, 50, 44, 32, 34, 110, 97, 109, 101,
      34, 58, 32, 34, 65, 110, 110, 101, 34, 44, 32, 34, 118, 101, 114, 105,
      102, 105, 101, 100, 95, 97, 116, 34, 58, 32, 49, 50, 51, 52, 32, 125,
      93, 32, 125
    >>,
    \* lib.rs tests::handles_escape_sequences:
    \*   { "hello": "world", "test": "he\""}
    <<
      123, 32, 34, 104, 101, 108, 108, 111, 34, 58, 32, 34, 119, 111, 114, 108,
      100, 34, 44, 32, 34, 116, 101, 115, 116, 34, 58, 32, 34, 104, 101, 92,
      34, 34, 125
    >>,
    \* lib.rs tests::properly_handles_objects:
    \*   { "user": {"name": "miguel", "account": {}}}
    <<
      123, 32, 34, 117, 115, 101, 114, 34, 58, 32, 123, 34, 110, 97, 109, 101,
      34, 58, 32, 34, 109, 105, 103, 117, 101, 108, 34, 44, 32, 34, 97, 99,
      99, 111, 117, 110, 116, 34, 58, 32, 123, 125, 125, 125
    >>,
    \* lib.rs tests::properly_handles_arrays:
    \*   { "toys": ["test", ""]}
    <<
      123, 32, 34, 116, 111, 121, 115, 34, 58, 32, 91, 34, 116, 101, 115, 116,
      34, 44, 32, 34, 34, 93, 125
    >>,
    \* lib.rs tests::completes_incomplete_booleans:
    \*   { "test": false}
    <<
      123, 32, 34, 116, 101, 115, 116, 34, 58, 32, 102, 97, 108, 115, 101, 125
    >>,
    \* lib.rs tests::completes_incomplete_booleans:
    \*   { "test": true}
    <<
      123, 32, 34, 116, 101, 115, 116, 34, 58, 32, 116, 114, 117, 101, 125
    >>,
    \* verifier.rs doc example:
    \*   { "name": "annie", "value": 1 }
    <<
      123, 32, 34, 110, 97, 109, 101, 34, 58, 32, 34, 97, 110, 110, 105, 101,
      34, 44, 32, 34, 118, 97, 108, 117, 101, 34, 58, 32, 49, 32, 125
    >>,
    \* numbers, nested arrays and a \u escape, which no test of the repository feeds:
    \*   {"a":1,"b":"\u12ab","c":[-0.5e+1,[0,{}]]}
    <<
      123, 34, 97, 34, 58, 49, 44, 34, 98, 34, 58, 34, 92, 117, 49, 50,
      97, 98, 34, 44, 34, 99, 34, 58, 91, 45, 48, 46, 53, 101, 43, 49,
      44, 91, 48, 44, 123, 125, 93, 93, 125
    >>,
    \* a closer of the wrong kind in the middle of a source:
    \*   [1}]
    <<
      91, 49, 125, 93
    >>
  >>

IsPrefix(p, s) == Len(p) <= Len(s) /\ SubSeq(s, 1, Len(p)) = p

IsWs(c) == c \in {32, 9, 10, 13}

\* Where a reader of JSON text stands after byte c: outside a string ("out"),
\* inside one ("str"), or right after a backslash inside one ("esc").  A byte
\* >= 128 after a backslash escapes nothing and leaves the backslash pending.
LexStep(m, c) ==
  CASE m = "out" -> IF c = 34 THEN "str" ELSE "out"
    [] m = "str" -> IF c = 92 THEN "esc" ELSE IF c = 34 THEN "out" ELSE "str"
    [] m = "esc" -> IF c >= 128 THEN "esc" ELSE "str"

\* One step of a reader that also keeps the positions of the brackets that
\* are open; n is the position of byte c.
ScanStep(st, c, n) ==
  [ mode |-> LexStep(st.mode, c),
    open |-> IF st.mode # "out" THEN st.open
             ELSE IF c \in {123, 91} THEN Append(st.open, n)
             ELSE IF c \in {125, 93} THEN PopBack(st.open)
             ELSE st.open ]

\* The reader that is in st before byte lo, after bytes lo..hi of s.  The
\* range is read by halves, the first half to its end before the second is
\* entered, which keeps the evaluation shallow on long inputs.
RECURSIVE ScanRange(_, _, _, _)
ScanRange(st, s, lo, hi) ==
  IF lo > hi
    THEN st
    ELSE IF lo = hi
           THEN ScanStep(st, s[lo], lo)
           ELSE LET mid   == (lo + hi) \div 2
                    first == ScanRange(st, s, lo, mid)
                IN  IF first.mode \in {"out", "str", "esc"}
                      THEN ScanRange(first, s, mid + 1, hi)
                      ELSE first

\* The reader after the first n bytes of s.
Scan(s, n) == ScanRange([mode |-> "out", open |-> <<>>], s, 1, n)

LexMode(s, n) == Scan(s, n).mode

\* The positions of the brackets of s that are still open at its end,
\* outermost first.
OpenBrackets(s) == Scan(s, Len(s)).open

\* One closer for every bracket of s still open at its end, innermost first.
Closers(s) ==
  LET open == Rev(OpenBrackets(s))
  IN  [i \in 1..Len(open) |-> IF s[open[i]] = 91 THEN 93 ELSE 125]

\* The position of the last `,` of s outside a string, or 0.
LastComma(s) ==
  LET at == {i \in 1..Len(s) : s[i] = 44 /\ LexMode(s, i - 1) = "out"}
  IN  IF at = {} THEN 0 ELSE CHOOSE i \in at : \A j \in at : j <= i

\* The inputs explored byte by byte.
InLang(s) ==
  /\ Len(s) <= MaxLen
  /\ \A i \in 1..Len(s) :
       /\ s[i] \in Bytes
       /\ LexMode(s, i - 1) # "out" => s[i] \in StrBytes
  /\ Cardinality({i \in 1..Len(s) : IsWs(s[i])}) <= MaxWs
  /\ Cardinality({i \in 1..Len(s) : s[i] >= 128}) <= MaxHigh

Feedable(s) == InLang(s) \/ \E k \in 1..Len(Seeds) : IsPrefix(s, Seeds[k])

\* The sources offered to Builder::update on a builder holding d: one byte
\* (impl Source for u8) or the next bytes of a seed (impl Source for &[u8]).
Sources(d) ==
  {<<c>> : c \in Bytes}
    \cup UNION { { SubSeq(Seeds[k], Len(d) + 1, Len(d) + n) :
                     n \in {m \in 1..MaxChunk : Len(d) + m <= Len(Seeds[k])} } :
                   k \in {j \in 1..Len(Seeds) : IsPrefix(d, Seeds[j])} }

\* The inputs offered to repair: every sequence over RepairBytes of length at
\* most MaxRepairLen and every prefix of a seed.
RepairOffered(J) ==
  \/ Len(J) <= MaxRepairLen /\ \A i \in 1..Len(J) : J[i] \in RepairBytes
  \/ \E k \in 1..Len(Seeds) : IsPrefix(J, Seeds[k])

\* They are enumerated in order of length: the inputs one byte longer than
\* the input of the previous call.
RepairInputsAfter(prev) ==
  { J \in { Append(prev, c) :
              c \in RepairBytes \cup
                    { Seeds[k][Len(prev) + 1] :
                        k \in {j \in 1..Len(Seeds) : Len(prev) < Len(Seeds[j])} } } :
      RepairOffered(J) }

\* ------------------------------------------------------------------------
\* JSON text (RFC 8259), read independently of the tables
\* ------------------------------------------------------------------------

IsDigit(c) == c >= 48 /\ c <= 57

IsHex(c) == IsDigit(c) \/ (c >= 65 /\ c <= 70) \/ (c >= 97 /\ c <= 102)

\* Byte i of s, or -1 past its end.
At(s, i) == IF i >= 1 /\ i <= Len(s) THEN s[i] ELSE -1

\* The first position from i on that holds no whitespace.
RECURSIVE SkipWs(_, _)
SkipWs(s, i) == IF IsWs(At(s, i)) THEN SkipWs(s, i + 1) ELSE i

\* The first position from i on that holds no digit.
RECURSIVE SkipDigits(_, _)
SkipDigits(s, i) == IF IsDigit(At(s, i)) THEN SkipDigits(s, i + 1) ELSE i

\* Each J...(s, i) reads one production starting at position i and gives the
\* position after it, or 0 when s does not hold the production there.

\* string contents from position i (the opening quote already read)
RECURSIVE JChars(_, _)
JChars(s, i) ==
  LET c == At(s, i)
  IN  IF c = 34 THEN i + 1
      ELSE IF c < 32 THEN 0
      ELSE IF c # 92 THEN JChars(s, i + 1)
      ELSE IF At(s, i + 1) \in {34, 92, 47, 98, 102, 110, 114, 116}
             THEN JChars(s, i + 2)
      ELSE IF /\ At(s, i + 1) = 117
              /\ \A k \in 2..5 : IsHex(At(s, i + k))
             THEN JChars(s, i + 6)
      ELSE 0

JString(s, i) == IF At(s, i) = 34 THEN JChars(s, i + 1) ELSE 0

JNumber(s, i) ==
  LET i1   == IF At(s, i) = 45 THEN i + 1 ELSE i
      i2   == IF At(s, i1) = 48 THEN i1 + 1
              ELSE IF IsDigit(At(s, i1)) THEN SkipDigits(s, i1)
              ELSE 0
      i3   == IF i2 = 0 THEN 0
              ELSE IF At(s, i2) # 46 THEN i2
              ELSE IF IsDigit(At(s, i2 + 1)) THEN SkipDigits(s, i2 + 1)
              ELSE 0
      sign == IF At(s, i3 + 1) \in {43, 45} THEN i3 + 2 ELSE i3 + 1
  IN  IF i3 = 0 THEN 0
      ELSE IF At(s, i3) \notin {101, 69} THEN i3
      ELSE IF IsDigit(At(s, sign)) THEN SkipDigits(s, sign)
      ELSE 0

JLiteral(s, i, word) ==
  IF \A k \in 1..Len(word) : At(s, i + k - 1) = word[k]
    THEN i + Len(word)
    ELSE 0

RECURSIVE JValue(_, _)
RECURSIVE JElements(_, _)
RECURSIVE JMembers(_, _)

\* value (, value)* ], from the first value on
JElements(s, i) ==
  LET e == JValue(s, SkipWs(s, i))
      j == SkipWs(s, e)
  IN  IF e = 0 THEN 0
      ELSE IF At(s, j) = 93 THEN j + 1
      ELSE IF At(s, j) = 44 THEN JElements(s, j + 1)
      ELSE 0

\* string : value (, string : value)* }, from the first key on
JMembers(s, i) ==
  LET k == JString(s, SkipWs(s, i))
      c == SkipWs(s, k)
      e == JValue(s, SkipWs(s, c + 1))
      j == SkipWs(s, e)
  IN  IF k = 0 \/ At(s, c) # 58 \/ e = 0 THEN 0
      ELSE IF At(s, j) = 125 THEN j + 1
      ELSE IF At(s, j) = 44 THEN JMembers(s, j + 1)
      ELSE 0

JValue(s, i) ==
  LET c == At(s, i)
  IN  CASE c = 123 -> IF At(s, SkipWs(s, i + 1)) = 125
                        THEN SkipWs(s, i + 1) + 1
                        ELSE JMembers(s, i + 1)
        [] c = 91  -> IF At(s, SkipWs(s, i + 1)) = 93
                        THEN SkipWs(s, i + 1) + 1
                        ELSE JElements(s, i + 1)
        [] c = 34  -> JString(s, i)
        [] c = 116 -> JLiteral(s, i, <<116, 114, 117, 101>>)
        [] c = 102 -> JLiteral(s, i, <<102, 97, 108, 115, 101>>)
        [] c = 110 -> JLiteral(s, i, <<110, 117, 108, 108>>)
        [] OTHER   -> JNumber(s, i)

\* s is a JSON text: ws value ws.
IsJson(s) ==
  LET e == JValue(s, SkipWs(s, 1))
  IN  e # 0 /\ SkipWs(s, e) = Len(s) + 1

\* s is a JSON text whose value is an object or an array.
IsJsonContainer(s) == IsJson(s) /\ At(s, SkipWs(s, 1)) \in {123, 91}

\* ------------------------------------------------------------------------
\* The program state
\* ------------------------------------------------------------------------

VARIABLES
  maximum,       \* Verifier.maximum
  state,         \* Verifier.state
  nested_state,  \* Verifier.nested_state
  stack,         \* Verifier.stack, entries <<ValueType, usize>>
  length,        \* Verifier.length
  last_ok,       \* Verifier.last_ok
  data,          \* Builder.data
  invalid,       \* Builder.invalid
  obj,           \* the value the caller holds: "Verifier", "Builder", or
                 \* "Moved" once a consuming method has taken the builder
                 \* (the fields then show the builder as that call received it)
  call,          \* the last function called
  input,         \* the argument of the last repair call, or the byte given
                 \* to the last update call of a Verifier in SpecTry
  fed,           \* the bytes whose update succeeded since construction or the
                 \* last reset, as the caller passed them
  ret,           \* the error tag it returned ("Ok" for Ok(..))
  out            \* the bytes or text inside the Ok(..) of a consuming call

vars ==
  << maximum, state, nested_state, stack, length, last_ok, data, invalid,
     obj, call, input, fed, ret, out >>

\* The Verifier held in the variables.
Ver ==
  [ length       |-> length,
    last_ok      |-> last_ok,
    stack        |-> stack,
    nested_state |-> nested_state,
    state        |-> state,
    maximum      |-> maximum ]

\* The Builder held in the variables.
Bld == [invalid |-> invalid, data |-> data, verifier |-> Ver]

SetVer(v) ==
  /\ maximum' = v.maximum
  /\ state' = v.state
  /\ nested_state' = v.nested_state
  /\ stack' = v.stack
  /\ length' = v.length
  /\ last_ok' = v.last_ok

SetBld(b) ==
  /\ data' = b.data
  /\ invalid' = b.invalid
  /\ SetVer(b.verifier)

InitVer(v) ==
  /\ maximum = v.maximum
  /\ state = v.state
  /\ nested_state = v.nested_state
  /\ stack = v.stack
  /\ length = v.length
  /\ last_ok = v.last_ok

\* The number of leading bytes of source that a verifier in state v accepts
\* one after the other: the times the Ok(()) arm of the loop of
\* Builder::update runs.
RECURSIVE Accepted(_, _, _)
Accepted(v, source, i) ==
  IF i > Len(source)
    THEN 0
    ELSE LET r == Verifier_update(v, source[i])
         IN  IF r.err = "Ok" THEN 1 + Accepted(r.v, source, i + 1) ELSE 0

\* let mut builder = Builder::new();
Init ==
  /\ InitVer(Builder_new.verifier)
  /\ data = Builder_new.data
  /\ invalid = Builder_new.invalid
  /\ obj = "Builder"
  /\ call = "new"
  /\ input = <<>>
  /\ fed = <<>>
  /\ ret = "Ok"
  /\ out = <<>>

\* builder.update(&source)
Update(source) ==
  /\ obj = "Builder"
  /\ ~invalid => Feedable(fed \o source)
  /\ LET r == Builder_update(Bld, source)
     IN  /\ SetBld(r.v)
         /\ ret' = r.err
  /\ fed' = IF invalid
              THEN fed
              ELSE fed \o SubSeq(source, 1, Accepted(Ver, source, 1))
  /\ call' = "update"
  /\ out' = <<>>
  /\ UNCHANGED <<obj, input>>

\* builder.reset()
Reset ==
  /\ obj = "Builder"
  /\ SetBld(Builder_reset(Bld))
  /\ fed' = <<>>
  /\ call' = "reset"
  /\ ret' = "Ok"
  /\ out' = <<>>
  /\ UNCHANGED <<obj, input>>

\* A consuming call `name` whose result is r.
Consume(name, r) ==
  /\ obj = "Builder"
  /\ obj' = "Moved"
  /\ call' = name
  /\ ret' = r.err
  /\ out' = r.val
  /\ UNCHANGED << maximum, state, nested_state, stack, length, last_ok,
                  data, invalid, input, fed >>

\* builder.bytes()
Bytes_ == Consume("bytes", Builder_bytes(Bld))

\* builder.string()
String_ == Consume("string", Builder_string(Bld))

\* builder.completed_bytes()
CompletedBytes == Consume("completed_bytes", Builder_completed_bytes(Bld))

\* builder.completed_string()
CompletedString == Consume("completed_string", Builder_completed_string(Bld))

\* builder = Builder::new(), after the previous builder was consumed.
New ==
  /\ obj = "Moved"
  /\ SetBld(Builder_new)
  /\ fed' = <<>>
  /\ obj' = "Builder"
  /\ call' = "new"
  /\ ret' = "Ok"
  /\ out' = <<>>
  /\ UNCHANGED input

Next ==
  \/ \E source \in Sources(fed) : Update(source)
  \/ Reset
  \/ Bytes_
  \/ String_
  \/ CompletedBytes
  \/ CompletedString
  \/ New

Spec == Init /\ [][Next]_vars

\* repair(J): the builder the call built and fed is shown as
\* completed_string received it (as update left it when update failed).
Repair(J) ==
  /\ SetBld(Builder_update(Builder_new, J).v)
  /\ LET r == repair(J)
     IN  /\ ret' = r.err
         /\ out' = r.val
  /\ fed' = SubSeq(J, 1, Accepted(Verifier_new, J, 1))
  /\ obj' = "Moved"
  /\ call' = "repair"
  /\ input' = J

\* The first call is given the empty input.
NextRepair ==
  \E J \in (IF call = "repair" THEN RepairInputsAfter(input) ELSE {<<>>}) :
    Repair(J)

SpecRepair == Init /\ [][NextRepair]_vars

\* let mut verifier = Verifier::with_maximum_depth(d), or Verifier::new()
InitVerifier ==
  /\ \E d \in (1..MaxDepth) \cup {UsizeMax} :
       InitVer(Verifier_with_maximum_depth(d))
  /\ data = <<>>
  /\ invalid = FALSE
  /\ obj = "Verifier"
  /\ call = "new"
  /\ input = <<>>
  /\ fed = <<>>
  /\ ret = "Ok"
  /\ out = <<>>

\* verifier.update(character); the bytes this verifier is given are not
\* recorded in fed.
VerifierUpdate(character) ==
  /\ obj = "Verifier"
  /\ length < MaxVerifierLen
  /\ LET r == Verifier_update(Ver, character)
     IN  /\ SetVer(r.v)
         /\ ret' = r.err
  /\ call' = "update"
  /\ UNCHANGED <<data, invalid, obj, input, fed, out>>

\* verifier.reset()
VerifierReset ==
  /\ obj = "Verifier"
  /\ SetVer(Verifier_reset(Ver))
  /\ fed' = <<>>
  /\ call' = "reset"
  /\ ret' = "Ok"
  /\ UNCHANGED <<data, invalid, obj, input, out>>

NextVerifier ==
  \/ \E character \in Bytes : VerifierUpdate(character)
  \/ VerifierReset

SpecVerifier == InitVerifier /\ [][NextVerifier]_vars

\* verifier.update(character) on a verifier that is later turned into a
\* Builder: the bytes it accepts are recorded in fed.
VerifierFeed(character) ==
  /\ obj = "Verifier"
  /\ Len(fed) < MaxConvertLen
  /\ Feedable(Append(fed, character))
  /\ LET r == Verifier_update(Ver, character)
     IN  /\ SetVer(r.v)
         /\ ret' = r.err
         /\ fed' = IF r.err = "Ok" THEN Append(fed, character) ELSE fed
  /\ call' = "update"
  /\ UNCHANGED <<data, invalid, obj, input, out>>

\* let builder: Builder = verifier.into();
From ==
  /\ obj = "Verifier"
  /\ SetBld(Builder_from(Ver))
  /\ obj' = "Builder"
  /\ call' = "from"
  /\ ret' = "Ok"
  /\ out' = <<>>
  /\ UNCHANGED <<input, fed>>

\* builder.update(&source) on a builder made from a verifier.
ConvertUpdate(source) ==
  /\ Len(fed) < MaxConvertLen
  /\ Update(source)

\* A Verifier of any maximum depth, fed, reset, and then turned into a
\* Builder that is used through the whole Builder API.
NextConvert ==
  \/ \E character \in Bytes : VerifierFeed(character)
  \/ VerifierReset
  \/ From
  \/ \E source \in Sources(fed) : ConvertUpdate(source)
  \/ Reset
  \/ Bytes_
  \/ String_
  \/ CompletedBytes
  \/ CompletedString

SpecConvert == InitVerifier /\ [][NextConvert]_vars

\* verifier.update(character), the byte given being kept in input.
VerifierTry(character) ==
  /\ obj = "Verifier"
  /\ length < MaxTryLen
  /\ LET r == Verifier_update(Ver, character)
     IN  /\ SetVer(r.v)
         /\ ret' = r.err
  /\ call' = "update"
  /\ input' = <<character>>
  /\ UNCHANGED <<data, invalid, obj, fed, out>>

\* A Verifier of any maximum depth given every byte in every state it
\* reaches, failed updates included.
NextTry ==
  \/ \E character \in TryBytes : VerifierTry(character)
  \/ VerifierReset

SpecTry == InitVerifier /\ [][NextTry]_vars

\* ------------------------------------------------------------------------
\* Claims
\* ------------------------------------------------------------------------

\* A completed_bytes call has returned.
Completed == obj = "Moved" /\ call = "completed_bytes"

\* C1: whenever repair(P) returns Ok, the returned text is a JSON document.
\* Stated for the inputs P that hold a byte other than whitespace (the empty
\* and the whitespace-only inputs come back unchanged, which is no JSON
\* document either).
C1_RepairedIsJson ==
  (call = "repair" /\ ret = "Ok" /\ \E i \in 1..Len(input) : ~IsWs(input[i]))
    => IsJson(out)

\* C2: an update of a Verifier that returns an error leaves state, length,
\* last_ok, stack and nested_state as they were.
C2_FailureAtomicity ==
  [][ (obj = "Verifier" /\ call' = "update" /\ ret' # "Ok")
        => UNCHANGED <<state, length, last_ok, stack, nested_state>> ]_vars

\* A JSON document as a byte sequence: JSON text that is UTF-8.
IsJsonDocument(s) == IsUtf8From(s, 1) /\ IsJson(s)

\* C3 as stated: repair(J) returns Ok(J) for every JSON document J.
C3_RepairKeepsEveryDocument ==
  (call = "repair" /\ IsJsonDocument(input)) => (ret = "Ok" /\ out = input)

\* C3, amended: repair(J) returns Ok(J) for every JSON document J whose
\* top-level value is an object or an array.
C3_RepairKeepsContainerDocument ==
  (call = "repair" /\ IsJsonDocument(input) /\ IsJsonContainer(input))
    => (ret = "Ok" /\ out = input)

\* A document with interior whitespace came back from repair.
C3_Witness ==
  /\ call = "repair"
  /\ IsJsonDocument(input)
  /\ IsJsonContainer(input)
  /\ Len(input) > 20
  /\ \E i \in 1..Len(input) : IsWs(input[i])
  /\ ret = "Ok"
  /\ out = input

\* C4: once an update of a Builder has returned an error the builder is
\* latched: until reset every later update returns Invalid and changes
\* neither the buffer nor the verifier, and bytes, string, completed_bytes
\* and completed_string return Err(Invalid); the failing update itself keeps
\* the bytes accepted before it.
C4_InvalidLatch ==
  [][ /\ (call' = "update" /\ ret' # "Ok")
        => (invalid' /\ IsPrefix(data, data'))
      /\ (invalid /\ call' = "update")
        => /\ ret' = "Invalid"
           /\ UNCHANGED << data, invalid, maximum, state, nested_state,
                           stack, length, last_ok >>
      /\ (invalid /\ call' \in {"bytes", "string", "completed_bytes",
                                 "completed_string"})
        => (ret' = "Invalid" /\ out' = <<>>)
      /\ (invalid /\ call' \notin {"reset", "new"}) => invalid' ]_vars

\* A latched builder that kept accepted bytes was updated again.
C4_Witness ==
  /\ obj = "Builder"
  /\ invalid
  /\ Len(data) > 1
  /\ call = "update"
  /\ ret = "Invalid"
  /\ state = "String"

\* C5: the completed output retains every object member and array element
\* that was completely received.  Stated for the value before the last `,`
\* of the input (outside a string): the input up to that `,` is kept.
C5_CompleteValuesKept ==
  (Completed /\ ret = "Ok" /\ LastComma(data) > 0)
    => IsPrefix(SubSeq(data, 1, LastComma(data) - 1), out)

\* C6: when the accepted input ends inside a string in value position, the
\* completed output is the whole input, then `"`, then one closer for every
\* open container, innermost first.
C6_StringValueClosed ==
  (Completed /\ ~invalid /\ state = "String"
     /\ Last(nested_state) \in {"Object", "Array"})
    => (ret = "Ok" /\ out = data \o <<34>> \o Closers(data))

\* A string value two containers deep was closed.
C6_Witness ==
  /\ Completed
  /\ ~invalid
  /\ state = "String"
  /\ Last(nested_state) = "Array"
  /\ Len(stack) = 2
  /\ out = data \o <<34, 93, 125>>

\* The literals of JSON: true, false, null.
Literals ==
  { <<116, 114, 117, 101>>, <<102, 97, 108, 115, 101>>,
    <<110, 117, 108, 108>> }

\* The last k bytes of s.
LastBytes(s, k) == SubSeq(s, Len(s) - k + 1, Len(s))

\* s ends, outside a string, with the first k letters of word.
EndsInLiteral(s, word, k) ==
  /\ k <= Len(s)
  /\ LastBytes(s, k) = SubSeq(word, 1, k)
  /\ LexMode(s, Len(s) - k) = "out"

\* C7: when the accepted input ends after 1 to len-1 letters of true, false
\* or null, the completed output is the whole input, then the missing
\* letters, then one closer for every open container, innermost first.
C7_LiteralCompleted ==
  \A word \in Literals : \A k \in 1..(Len(word) - 1) :
    (Completed /\ ~invalid /\ EndsInLiteral(data, word, k))
      => /\ ret = "Ok"
         /\ out = data \o SubSeq(word, k + 1, Len(word)) \o Closers(data)

\* `fal` inside an object was completed to `false`.
C7_Witness ==
  /\ Completed
  /\ ~invalid
  /\ EndsInLiteral(data, <<102, 97, 108, 115, 101>>, 3)
  /\ Len(stack) >= 1
  /\ out = data \o <<115, 101, 125>>

\* The position of the innermost open bracket of s, or 0.
InnerOpen(s) == IF OpenBrackets(s) = <<>> THEN 0 ELSE Last(OpenBrackets(s))

\* s consists of `]` and `}` only.
OnlyClosers(s) == \A i \in 1..Len(s) : s[i] \in {93, 125}

\* The completed output `o` of input s drops the member of the innermost
\* open object that is pending at the end of s: when a `,` of that object
\* precedes the member, o is s up to that `,` followed by the closers of
\* what is open there; when the member is the first one, o is a prefix of s
\* that ends at or before the `{` of the object, followed by closers only.
PendingMemberDropped(s, o) ==
  IF LastComma(s) > InnerOpen(s)
    THEN LET kept == SubSeq(s, 1, LastComma(s) - 1)
         IN  o = kept \o Closers(kept)
    ELSE \E k \in 0..InnerOpen(s) :
           /\ k <= Len(o)
           /\ SubSeq(o, 1, k) = SubSeq(s, 1, k)
           /\ OnlyClosers(SubSeq(o, k + 1, Len(o)))

\* An object member is pending: the input ends inside its key, after its key
\* and before `:`, after `:` and before the value, or right after the `,`
\* that introduces it.
MemberPending ==
  \/ state = "String" /\ Last(nested_state) = "Key"
  \/ state = "Colon"
  \/ state = "Value" /\ Last(nested_state) = "Object"
  \/ state = "Key"

\* C8: when the accepted input ends while an object member is pending, the
\* completed output keeps every earlier member of the object and nothing of
\* the pending one.
C8_PendingMemberDropped ==
  (Completed /\ ~invalid /\ MemberPending)
    => (ret = "Ok" /\ PendingMemberDropped(data, out))

\* A second member was pending after its `:` and the first one was kept.
C8_Witness ==
  /\ Completed
  /\ ~invalid
  /\ state = "Value"
  /\ Last(nested_state) = "Object"
  /\ LastComma(data) > InnerOpen(data)
  /\ Len(out) > 3
  /\ out = SubSeq(data, 1, LastComma(data) - 1) \o <<125>>

\* The input ends inside an escape sequence of a string value of an object.
EscapePending ==
  state \in {"Escape", "U1", "U2", "U3", "U4"} /\ Last(nested_state) = "Object"

\* The input ends right after a complete escape sequence (`\` and one byte,
\* or `\u` and four bytes) of a string value of an object.
EscapeComplete ==
  /\ state = "String"
  /\ Last(nested_state) = "Object"
  /\ \/ Len(data) >= 2 /\ LexMode(data, Len(data) - 1) = "esc"
     \/ /\ Len(data) >= 6
        /\ LexMode(data, Len(data) - 5) = "esc"
        /\ data[Len(data) - 4] = 117

\* C9: when the accepted input ends inside an escape sequence of a member's
\* string value, the completed output drops that member and keeps the
\* earlier ones; when the escape sequence is complete, the string is kept
\* and closed with `"`.
C9_DanglingEscape ==
  /\ (Completed /\ ~invalid /\ EscapePending)
       => (ret = "Ok" /\ PendingMemberDropped(data, out))
  /\ (Completed /\ ~invalid /\ EscapeComplete)
       => (ret = "Ok" /\ out = data \o <<34>> \o Closers(data))

\* A second member ended inside \uXXXX and only the first one was kept.
C9_Witness ==
  /\ Completed
  /\ ~invalid
  /\ state = "U3"
  /\ Last(nested_state) = "Object"
  /\ LastComma(data) > InnerOpen(data)
  /\ out = SubSeq(data, 1, LastComma(data) - 1) \o <<125>>

\* The last byte of s before position i that is no whitespace, or -1.
RECURSIVE ByteBefore(_, _)
ByteBefore(s, i) ==
  IF i <= 1 THEN -1
  ELSE IF IsWs(s[i - 1]) THEN ByteBefore(s, i - 1)
  ELSE s[i - 1]

\* The input ends right after a freshly opened container in value position:
\* its innermost open bracket is a `[`, or a `{` that follows a `:` or a `,`,
\* and after it come only whitespace or, in an object, whitespace and a
\* partial first key.
FreshContainer ==
  LET b == InnerOpen(data)
  IN  /\ b > 0
      /\ \/ data[b] = 91
         \/ data[b] = 123 /\ ByteBefore(data, b) \in {58, 44}
      /\ \/ /\ state \in {"Object", "Array"}
            /\ \A i \in (b + 1)..Len(data) : IsWs(data[i])
         \/ /\ state = "String"
            /\ Last(nested_state) = "Key"
            /\ data[b] = 123
            /\ LastComma(data) < b
            /\ \E q \in (b + 1)..Len(data) :
                 /\ data[q] = 34
                 /\ \A i \in (b + 1)..(q - 1) : IsWs(data[i])
                 /\ \A i \in (q + 1)..Len(data) : data[i] # 34

\* C10: when the accepted input ends right after a freshly opened container
\* in value position, the completed output keeps its opening bracket (and at
\* most the whitespace after it), closes it as an empty container and closes
\* the enclosing containers.
C10_FreshContainerKept ==
  (Completed /\ ~invalid /\ FreshContainer)
    => /\ ret = "Ok"
       /\ \E k \in InnerOpen(data)..Len(data) :
            /\ \A i \in (InnerOpen(data) + 1)..k : IsWs(data[i])
            /\ out = SubSeq(data, 1, k)
                       \o Closers(SubSeq(data, 1, InnerOpen(data)))

\* An object opened after `:` and holding a partial first key was kept as {}.
C10_Witness ==
  /\ Completed
  /\ ~invalid
  /\ FreshContainer
  /\ state = "String"
  /\ Len(stack) = 2
  /\ out = SubSeq(data, 1, InnerOpen(data)) \o <<125, 125>>

\* The innermost open bracket of s is a `{` that directly follows a `[`
\* (whitespace aside): an object opened as the first element of an array.
FirstElementObject(s) ==
  /\ InnerOpen(s) > 0
  /\ s[InnerOpen(s)] = 123
  /\ ByteBefore(s, InnerOpen(s)) = 91

\* The completer rewinds to last_ok: the input does not end inside a literal,
\* an integer or a string in value position, which are completed in place.
Rewinds ==
  /\ state \notin LiteralStates
  /\ state = "String" => Last(nested_state) = "Key"

\* The completed output o of input s omits the object opened at the
\* innermost open bracket of s and closes what was open before it.
ObjectOmitted(s, o) ==
  LET kept == SubSeq(s, 1, InnerOpen(s) - 1)
  IN  o = kept \o Closers(kept)

\* The completed output o of input s keeps the object opened at the
\* innermost open bracket of s and closes it and what encloses it.
ObjectKept(s, o) ==
  LET closers == Closers(SubSeq(s, 1, InnerOpen(s)))
  IN  /\ IsPrefix(SubSeq(s, 1, InnerOpen(s)), o)
      /\ Len(o) >= InnerOpen(s) + Len(closers)
      /\ LastBytes(o, Len(closers)) = closers

\* C11 as stated: whenever the accepted input ends inside an object opened
\* as the first element of an array and last_ok has not advanced since its
\* `{` was accepted, the completed output omits the object; once last_ok has
\* advanced, the object is kept and closed.
C11_FirstElementObjectAlways ==
  (Completed /\ ~invalid /\ FirstElementObject(data))
    => /\ ret = "Ok"
       /\ last_ok < InnerOpen(data) => ObjectOmitted(data, out)
       /\ last_ok >= InnerOpen(data) => ObjectKept(data, out)

\* C11: the same, the object being omitted when in addition the completer
\* rewinds; an input that ends inside a literal, an integer or a string value
\* of the first member is completed in place and the object is kept.
C11_FirstElementObject ==
  (Completed /\ ~invalid /\ FirstElementObject(data))
    => /\ ret = "Ok"
       /\ (last_ok < InnerOpen(data) /\ Rewinds) => ObjectOmitted(data, out)
       /\ (last_ok < InnerOpen(data) /\ ~Rewinds) => ObjectKept(data, out)
       /\ last_ok >= InnerOpen(data) => ObjectKept(data, out)

\* `{ "users": [{ "id"` was completed to `{ "users": []}`.
C11_Witness ==
  /\ Completed
  /\ ~invalid
  /\ FirstElementObject(data)
  /\ last_ok < InnerOpen(data)
  /\ state = "Colon"
  /\ Len(stack) = 3
  /\ out = SubSeq(data, 1, InnerOpen(data) - 1) \o <<93, 125>>

\* C12: when a Builder has accepted every byte it was given since it was
\* constructed or reset, in one update call or in several, len() is the
\* number of those bytes and bytes() returns exactly those bytes.
C12_PrefixStability ==
  /\ (obj = "Builder" /\ ~invalid) => Builder_len(Bld) = Len(fed)
  /\ (obj = "Moved" /\ call = "bytes" /\ ~invalid)
       => (ret = "Ok" /\ out = fed)

\* bytes() returned a long input that had been fed in several calls and
\* holds a byte >= 128 and whitespace.
C12_Witness ==
  /\ obj = "Moved"
  /\ call = "bytes"
  /\ ~invalid
  /\ ret = "Ok"
  /\ Len(fed) >= 3
  /\ \E i \in 1..Len(fed) : fed[i] >= 128
  /\ out = fed

\* C13: in every state of a Builder whose invalid latch is not set, however
\* the Builder was made (a constructor or the conversion of a Verifier), the
\* buffer is as long as the verifier's length, and the verifier's length is
\* the number of bytes whose update succeeded since construction or the
\* last reset.
C13_LengthInvariant ==
  (obj = "Builder" /\ ~invalid)
    => (Len(data) = length /\ length = Len(fed))

\* C14: a Verifier constructed with maximum depth d never holds more than d
\* entries in stack or in nested_state.
C14_DepthBound ==
  obj = "Verifier" => (Len(stack) <= maximum /\ Len(nested_state) <= maximum)

\* A Verifier of maximum depth 2 with two containers open has refused a
\* third with Exceeded.
C14_Witness ==
  /\ obj = "Verifier"
  /\ maximum = 2
  /\ Len(stack) = 2
  /\ Len(nested_state) = 2
  /\ call = "update"
  /\ ret = "Exceeded"

\* Every byte >= 128 of s lies inside a string, after a byte of that string
\* other than `\`.
HighInStrings(s) ==
  \A i \in 1..Len(s) : s[i] >= 128 => LexMode(s, i - 1) = "str"

\* C15: status() is Valid exactly when state is Ok and nested_state is empty.
\* So, of the inputs a Builder has accepted, a document that ends with its
\* top-level closing bracket has status Valid, and an input that is no
\* complete document (such as a proper prefix of one) has status Continue.
C15_StatusMeaning ==
  (obj = "Builder" /\ ~invalid)
    => /\ Builder_status(Bld) = "Valid"
            <=> (state = "Ok" /\ nested_state = <<>>)
       /\ ( /\ IsJsonContainer(data)
            /\ HighInStrings(data)
            /\ data[Len(data)] \in {125, 93} )
            => Builder_status(Bld) = "Valid"
       /\ (HighInStrings(data) /\ ~IsJsonContainer(data))
            => Builder_status(Bld) = "Continue"

\* The document of the example in verifier.rs was accepted to its last byte
\* and the status is Valid.
C15_Witness ==
  /\ obj = "Builder"
  /\ ~invalid
  /\ data = Seeds[7]
  /\ data[Len(data)] = 125
  /\ Builder_status(Bld) = "Valid"

\* C16: when completed_bytes() is called on a Builder whose latch is not set
\* and whose status is Valid, it returns exactly the bytes the Builder
\* accepted, whitespace after the closing bracket included.
C16_ValidLeftAlone ==
  (Completed /\ ~invalid /\ Builder_status(Bld) = "Valid")
    => (ret = "Ok" /\ out = fed)

\* A document followed by whitespace was returned as it was fed.
C16_Witness ==
  /\ Completed
  /\ ~invalid
  /\ Builder_status(Bld) = "Valid"
  /\ Len(fed) >= 3
  /\ IsWs(fed[Len(fed)])
  /\ ret = "Ok"
  /\ out = fed

\* C17: completed_bytes() returns Ok on every Builder whose invalid latch is
\* not set, whatever state the verifier is in, and Err when the latch is set.
C17_CompletionNeverFails ==
  Completed => (ret = "Ok" <=> ~invalid)

\* completed_bytes() returned Ok on an input that ended inside a \uXXXX
\* escape, and the output is not the input.
C17_Witness ==
  /\ Completed
  /\ ~invalid
  /\ state = "U2"
  /\ ret = "Ok"
  /\ out # data

\* C18: after any sequence of operations (failed updates and a set latch
\* included), reset() leaves a Verifier, and a Builder, equal field by field
\* to a freshly constructed one of the same maximum depth; every later
\* operation is a function of those fields, so it yields the same result
\* from both.
C18_ResetFidelity ==
  [][ call' = "reset"
        => /\ maximum' = maximum
           /\ obj' = obj
           /\ Ver' = Verifier_with_maximum_depth(maximum)
           /\ obj = "Builder" => Bld' = Builder_with_maximum_depth(maximum) ]_vars

\* A Builder of maximum depth 1 has been reset and is as new.
C18_Witness ==
  /\ obj = "Builder"
  /\ call = "reset"
  /\ maximum = 1
  /\ Bld = Builder_with_maximum_depth(1)

\* The buffer a Builder keeps when completed_bytes() truncates it.
Retained ==
  LET until == Verifier_complete(Ver)[1]
  IN  IF until = <<>>
        THEN data
        ELSE Truncate(data, IF until[1] = 0 THEN 1 ELSE until[1])

\* C19: for an accepted input with status Continue, the completed output is
\* the retained buffer, the completion of the value the input ends in, and
\* then one closer for exactly the brackets open in the retained buffer,
\* innermost first, `]` for `[` and `}` for `{`.
C19_ClosersMatchRetained ==
  (Completed /\ ~invalid /\ Builder_status(Bld) = "Continue")
    => out = Retained \o Verifier_complete_state(Ver).tokens
                      \o Closers(Retained)

\* C20: whenever the completer returns Some(0) for a non-empty accepted
\* input, the buffer is cut to one byte and that byte is the `{` or `[` that
\* opens the top-level container.
C20_TruncateToZero ==
  ( /\ Completed
    /\ ~invalid
    /\ Builder_status(Bld) = "Continue"
    /\ Verifier_complete(Ver)[1] = <<0>>
    /\ data # <<>> )
    => (Retained = <<data[1]>> /\ data[1] \in {123, 91})

\* The parse states inside a string literal.
StringStates == {"String", "Escape", "U1", "U2", "U3", "U4"}

\* The kind of the innermost open container, "None" when none is open.
Innermost == IF stack = <<>> THEN "None" ELSE Last(stack)[1]

\* C21: a closer given outside a string is rejected with Invalid when it is
\* `}` and the innermost open container is an array, when it is `]` and the
\* innermost open container is an object, and when no container is open.
C21_WrongCloserRejected ==
  [][ ( /\ obj = "Verifier"
        /\ call' = "update"
        /\ state \notin StringStates
        /\ \/ input' = <<125>> /\ Innermost \in {"Array", "None"}
           \/ input' = <<93>> /\ Innermost \in {"Object", "None"} )
        => ret' = "Invalid" ]_vars

\* A `}` given after an element of an array has been rejected with Invalid.
C21_Witness ==
  /\ obj = "Verifier"
  /\ call = "update"
  /\ input = <<125>>
  /\ ret = "Invalid"
  /\ state = "Integer"
  /\ stack = <<<<"Array", 0>>>>

\* The parse states in which a container may start.
ContainerMayStart == {"Begin", "Value", "Array"}

\* C22: on a Verifier of maximum depth d with d containers open, in a parse
\* state that allows a container to start, update(`{`) and update(`[`)
\* return Exceeded and change none of state, length, last_ok, stack and
\* nested_state.
C22_DepthExceeded ==
  [][ ( /\ obj = "Verifier"
        /\ call' = "update"
        /\ input' \in {<<123>>, <<91>>}
        /\ Len(stack) = maximum
        /\ Len(nested_state) = maximum
        /\ state \in ContainerMayStart )
        => /\ ret' = "Exceeded"
           /\ UNCHANGED <<state, length, last_ok, stack, nested_state>> ]_vars

\* With two containers open and a maximum depth of 2, a `{` in state Value
\* has been refused with Exceeded.
C22_Witness ==
  /\ obj = "Verifier"
  /\ call = "update"
  /\ input = <<123>>
  /\ ret = "Exceeded"
  /\ maximum = 2
  /\ Len(stack) = 2
  /\ state \in {"Value", "Array"}

WhitespaceStates ==
  { "Begin", "Ok", "Object", "Key", "Colon", "Value", "Array",
    "Zero", "Integer", "Fraction2", "Exponent3" }

\* C24: in every state of a Verifier, update(b) with b < 0x20 other than
\* TAB, LF and CR returns Invalid and leaves the verifier unchanged; TAB, LF
\* and CR are accepted exactly in the states where whitespace is allowed, and
\* so are rejected inside a string.
C24_ControlCharacters ==
  [][ ( /\ obj = "Verifier"
        /\ call' = "update"
        /\ Len(input') = 1
        /\ input'[1] < 32 )
        => IF input'[1] \in {9, 10, 13}
             THEN /\ ret' = "Ok" <=> state \in WhitespaceStates
                  /\ state \in StringStates => ret' = "Invalid"
             ELSE /\ ret' = "Invalid"
                  /\ UNCHANGED << maximum, state, length, last_ok, stack,
                                  nested_state >> ]_vars

\* A TAB given inside a string has been rejected with Invalid.
C24_Witness ==
  /\ obj = "Verifier"
  /\ call = "update"
  /\ input = <<9>>
  /\ ret = "Invalid"
  /\ state = "String"

\* A Builder accepts the single byte b outside a string.
Accepts(b) ==
  /\ obj = "Builder"
  /\ call' = "update"
  /\ ret' = "Ok"
  /\ state \notin StringStates
  /\ Len(data') = Len(data) + 1
  /\ data'[Len(data')] = b

\* completed_bytes() is called on an input that ends with a `{` or `[`
\* whose acceptance set last_ok.
CompletesFreshContainer ==
  /\ obj = "Builder"
  /\ call' = "completed_bytes"
  /\ ~invalid
  /\ state \in {"Object", "Array"}
  /\ Len(data) > 0
  /\ data[Len(data)] \in {123, 91}
  /\ last_ok = length

C26_CommaTieBreak ==
  [][ /\ Accepts(44) =>
           \/ /\ Last(nested_state) = "Object"
              /\ last_ok' = length
              /\ last_ok' = length' - 1
              /\ nested_state' = PopBack(nested_state) \o <<"Key">>
              /\ state' = "Key"
           \/ /\ Last(nested_state) = "Array"
              /\ last_ok' = last_ok
              /\ length' = length + 1
              /\ nested_state' = nested_state
              /\ state' = "Value"
      /\ (obj = "Builder" /\ ~invalid /\ nested_state = <<>>) =>
           Verifier_update(Ver, 44).err = "Invalid" ]_vars

\* A `,` has been accepted after a member of an object.
C26_Witness ==
  /\ obj = "Builder"
  /\ call = "update"
  /\ ret = "Ok"
  /\ data # <<>>
  /\ data[Len(data)] = 44
  /\ state = "Key"
  /\ Last(nested_state) = "Key"
  /\ last_ok = length - 1

\* The states inside one of the literals true, false and null.
PartialLiteralStates ==
  { "NullNu", "NullNul", "NullNull", "TrueTr", "TrueTru", "TrueTrue",
    "FalseFa", "FalseFal", "FalseFals", "FalseFalse" }

\* completed_bytes() is about to call the completer.
CallsComplete ==
  /\ obj = "Builder"
  /\ call' = "completed_bytes"
  /\ ~invalid
  /\ Verifier_status(Ver) = "Continue"

\* C27: the completer returns no truncation point exactly when the state is
\* Integer, a state inside a literal, or String in value position, and the
\* whole buffer is then kept; in every other state it returns last_ok as the
\* truncation point and nothing but closers.
C27_CompletionTable ==
  [][ CallsComplete =>
        LET c == Verifier_complete(Ver)
        IN  IF \/ state = "Integer"
               \/ state \in PartialLiteralStates
               \/ state = "String" /\ Last(nested_state) # "Key"
              THEN /\ c[1] = <<>>
                   /\ IsPrefix(data, out')
              ELSE /\ c[1] = <<last_ok>>
                   /\ OnlyClosers(c[2])
                   /\ out' = Truncate(data, IF last_ok = 0 THEN 1 ELSE last_ok)
                               \o c[2] ]_vars

\* A completion has cut an input that ended inside a fraction.
C27_Witness ==
  /\ Completed
  /\ ret = "Ok"
  /\ state = "Fraction1"
  /\ last_ok < length
  /\ Len(out) < Len(data)
  /\ OnlyClosers(SubSeq(out, last_ok + 1, Len(out)))

\* C28: after any sequence of update calls on a Verifier, failed ones
\* included, last_ok <= length.
C28_LastOkWithinLength ==
  obj = "Verifier" => last_ok <= length

\* A `,` of an object has moved last_ok to one byte below length.
C28_Witness ==
  /\ obj = "Verifier"
  /\ call = "update"
  /\ ret = "Ok"
  /\ state = "Key"
  /\ Last(nested_state) = "Key"
  /\ length > 1
  /\ last_ok = length - 1

\* C29: whenever a builder that has only accepted bytes is in state Ok,
\* last_ok equals length, and a completion made in state Ok keeps the whole
\* buffer and appends nothing but the closers of the open containers.
C29_OkAnchorsAtLength ==
  /\ (obj = "Builder" /\ ~invalid /\ state = "Ok") =>
       (last_ok = length /\ length = Len(data))
  /\ (Completed /\ ~invalid /\ state = "Ok") =>
       (ret = "Ok" /\ out = data \o Closers(data))

\* A completion in state Ok of an input that ends with whitespace or a high
\* byte inside an open container.
C29_Witness ==
  /\ Completed
  /\ ~invalid
  /\ state = "Ok"
  /\ stack # <<>>
  /\ data # <<>>
  /\ (IsWs(data[Len(data)]) \/ data[Len(data)] >= 128)
  /\ Len(out) > Len(data)

\* C30: in a builder that has only accepted bytes, stack holds Array and
\* Object entries only, stack and nested_state have the same length, and
\* position by position an Array of nested_state faces an Array of stack
\* while a Key or an Object of nested_state faces an Object of stack.
C30_StackCorrespondence ==
  (obj = "Builder" /\ ~invalid) =>
    /\ \A i \in 1..Len(stack) : stack[i][1] \in {"Array", "Object"}
    /\ Len(stack) = Len(nested_state)
    /\ \A i \in 1..Len(nested_state) :
         /\ nested_state[i] = "Array" => stack[i][1] = "Array"
         /\ nested_state[i] \in {"Key", "Object"} => stack[i][1] = "Object"

\* An object in an array in an object is open and expects a key.
C30_Witness ==
  /\ obj = "Builder"
  /\ ~invalid
  /\ call = "update"
  /\ nested_state = <<"Object", "Array", "Key">>
  /\ Len(stack) = 3

\* C31: once status() of a Verifier is Valid, update accepts exactly the
\* whitespace bytes (space, TAB, LF, CR) and the bytes >= 128; every other
\* byte returns Invalid and leaves the verifier as it was; and status() is
\* Valid again after the update, accepted or not.
C31_ValidAbsorbing ==
  [][ (obj = "Verifier" /\ call' = "update" /\ Verifier_status(Ver) = "Valid")
        => /\ ret' = "Ok" <=> (input'[1] \in {32, 9, 10, 13} \/ input'[1] >= 128)
           /\ ret' # "Ok" =>
                /\ ret' = "Invalid"
                /\ UNCHANGED <<maximum, state, nested_state, stack, length,
                               last_ok>>
           /\ state' = "Ok"
           /\ nested_state' = <<>> ]_vars

\* A `,` has been rejected by a verifier whose status is Valid.
C31_Witness ==
  /\ obj = "Verifier"
  /\ call = "update"
  /\ ret = "Invalid"
  /\ input = <<44>>
  /\ Verifier_status(Ver) = "Valid"
  /\ length > 1

\* The index of the first byte of s that is neither whitespace nor >= 128
\* (0 when there is none).
FirstSignificant(s) ==
  LET at == {i \in 1..Len(s) : s[i] \notin {32, 9, 10, 13} /\ s[i] < 128}
  IN  IF at = {} THEN 0 ELSE CHOOSE i \in at : \A j \in at : i <= j

\* The verifier of a fresh builder fed the bytes of s before index i.
VerifierBefore(s, i) ==
  Builder_update(Builder_new, SubSeq(s, 1, i - 1)).v.verifier

\* C32: the first byte a fresh verifier accepts that is neither whitespace
\* nor >= 128 is `{` or `[`, every other such byte being rejected with
\* Invalid; so repair returns Err(Invalid) for an input whose top-level value
\* is a string, a number, true, false or null.
C32_TopLevelContainer ==
  (call = "repair" /\ FirstSignificant(input) # 0) =>
    LET i  == FirstSignificant(input)
        v0 == VerifierBefore(input, i)
    IN  /\ v0.state = "Begin"
        /\ \A b \in {c \in TryBytes : c \notin {32, 9, 10, 13} /\ c < 128} :
             IF b \in {123, 91}
               THEN Verifier_update(v0, b).err = "Ok"
               ELSE Verifier_update(v0, b).err = "Invalid"
        /\ input[i] \notin {123, 91} => ret = "Invalid"
        /\ ret = "Ok" => input[i] \in {123, 91}

\* repair has refused a JSON document whose top-level value is a scalar that
\* follows whitespace.
C32_Witness ==
  /\ call = "repair"
  /\ ret = "Invalid"
  /\ Len(input) > 1
  /\ IsWs(input[1])
  /\ FirstSignificant(input) = 2
  /\ IsJson(input)
  /\ ~IsJsonContainer(input)

\* C33: no update call of a Verifier, accepted or not, lowers last_ok, and
\* the anchors recorded on the stack never decrease from the outermost entry
\* to the innermost one.
C33_LastOkMonotone ==
  [][ obj = "Verifier" =>
        /\ call' = "update" => last_ok' >= last_ok
        /\ \A i \in 1..(Len(stack') - 1) : stack'[i][2] <= stack'[i + 1][2] ]_vars

\* Two containers are open with different anchors and last_ok has moved past
\* both.
C33_Witness ==
  /\ obj = "Verifier"
  /\ call = "update"
  /\ ret = "Ok"
  /\ Len(stack) = 2
  /\ stack[1][2] < stack[2][2]
  /\ stack[2][2] < last_ok
  /\ last_ok < length

\* The positions of the stack entries for which the completer of the current
\* verifier emits no closer.
Unclosed ==
  LET until == Verifier_complete_state(Ver).last_ok
  IN  {i \in 1..Len(stack) : ~Verifier_complete_filter(stack[i], until)}

\* C34: the stack entries the completer leaves without a closer are a
\* topmost segment of the stack: no entry is skipped while a deeper one is
\* closed.  In a builder that has only accepted bytes the segment has at most
\* one entry, an Object, and a completion ends its output with the closers
\* of the other entries, innermost first, after a prefix of the input and the
\* token that ends a literal or a string.
C34_UnclosedSegment ==
  /\ \A i \in Unclosed : \A j \in i..Len(stack) : j \in Unclosed
  /\ (obj \in {"Builder", "Moved"} /\ ~invalid) =>
       /\ Cardinality(Unclosed) <= 1
       /\ \A i \in Unclosed : stack[i][1] = "Object"
  /\ (Completed /\ ~invalid /\ ret = "Ok") =>
       LET n == Len(stack) - Cardinality(Unclosed)
       IN  /\ n <= Len(out)
           /\ \A i \in 1..n :
                out[Len(out) - i + 1] = IF stack[i][1] = "Array" THEN 93 ELSE 125
           /\ IsPrefix(SubSeq(out, 1, Len(out) - n
                                        - Len(Verifier_complete_state(Ver).tokens)),
                       data)

\* A completion has left the object opened last in an array without a closer.
C34_Witness ==
  /\ Completed
  /\ ~invalid
  /\ ret = "Ok"
  /\ Len(stack) = 3
  /\ Unclosed = {3}
  /\ stack[3][1] = "Object"
  /\ stack[2][1] = "Array"

\* What a completion may append before the closers: nothing, the `"` that
\* ends a string, or the rest of true, false or null.
Remainders ==
  { <<>>, <<34>>,
    <<117, 108, 108>>, <<108, 108>>, <<108>>,
    <<114, 117, 101>>, <<117, 101>>, <<101>>,
    <<97, 108, 115, 101>>, <<108, 115, 101>>, <<115, 101>> }

\* o is the first k bytes of s followed by a remainder and then by closers
\* only, no more of them than s has open brackets.
CutsAndAppends(s, o, k) ==
  /\ k <= Len(o)
  /\ SubSeq(o, 1, k) = SubSeq(s, 1, k)
  /\ \E t \in Remainders :
       /\ k + Len(t) <= Len(o)
       /\ SubSeq(o, k + 1, k + Len(t)) = t
       /\ OnlyClosers(SubSeq(o, k + Len(t) + 1, Len(o)))
       /\ Len(o) - k - Len(t) <= Len(OpenBrackets(s))

\* C35: completed_bytes() on a builder that has only accepted bytes returns
\* Ok with the first k bytes of the input, unaltered and in order, for some
\* k <= len, followed by an optional literal remainder or a single `"` and
\* then by `]` and `}` bytes only, at most one per open container.
C35_CutsAndAppends ==
  (Completed /\ ~invalid) =>
    /\ ret = "Ok"
    /\ \E k \in 0..Len(data) : CutsAndAppends(data, out, k)

\* A completion has cut nothing, ended a literal and closed two containers.
C35_Witness ==
  /\ Completed
  /\ ~invalid
  /\ ret = "Ok"
  /\ state \in PartialLiteralStates
  /\ Len(stack) = 2
  /\ Len(out) >= Len(data) + 3
  /\ CutsAndAppends(data, out, Len(data))

====
